---- MODULE Spec2Model ----
(***************************************************************************)
(* A model of the segment-timed dubbing pipeline of src/video_dubber.py    *)
(* (class VideoDubber): the temporal aligner adjust_audio_speed, the track *)
(* mixer merge_dubbed_audio, and the stage sequencing of process_video and *)
(* process_video_batch.                                                    *)
(*                                                                         *)
(* Time values (Segment.start, Segment.end, clip durations) are Python     *)
(* floats in seconds; the model keeps them as integers in units of 0.1 ms  *)
(* (10000 units = 1 s), so that start * 1000 (milliseconds) has a          *)
(* fractional part the conversion to int can cut.  Speed factors are kept  *)
(* as fractions <<num, den>> and compared exactly; the rounding of Python's *)
(* float arithmetic is not modelled.                                       *)
(***************************************************************************)
EXTENDS Integers, Sequences, FiniteSets, TLC

VARIABLES
    pc,           \* position of the running operation
    mode,         \* the method the caller invoked: "align", "merge",
                  \* "single" (process_video) or "batch" (process_video_batch)
    a_in,         \* adjust_audio_speed: the arguments of the call under study
    a_env,        \* adjust_audio_speed: which toolkit invocations succeeded
    a_out,        \* adjust_audio_speed: what the call did and returned
    job,          \* the arguments of process_video / process_video_batch
    audio_ok,     \* whether the extracted audio.wav exists
    shared,       \* process_video_batch: segments, the transcription's list
    li,           \* process_video_batch: index of the language being processed
    segments,     \* the segment list being worked on (lang_segments in a batch)
    idx,          \* the loop index i of the running per-segment loop
    fs,           \* synthesized clips on disk: path -> [ok, dur]
    inputs,       \* merge_dubbed_audio: the clips given as -i, in order
    filter_parts, \* merge_dubbed_audio: the adelay filters, in order
    mix,          \* merge_dubbed_audio: the mix command the running call ran
    dubbed_audio, \* what merge_dubbed_audio returned (<<>> is "")
    muxed,        \* the mux_video calls made
    lang_result,  \* process_video_batch: the current language's result
    results,      \* the result dictionary being built
    stageLog,     \* the stages started so far, in order
    tr_calls,     \* how each call of translator.translate made by the running
                  \* translate_segments ended, in order
    tr_failed,    \* the languages (by index) for which some call of
                  \* translator.translate ended in its except clause
    written,      \* the files written so far: <<owner, path>>, the owner being
                  \* "job", the language tag in a batch, or the job's number
    clock,        \* the wall clock, in seconds
    job_dirs,     \* the job directory each started job was given
    tr_source,    \* the source-language tag handed to translator.translate in
                  \* each call of the running translate_segments, in order
    srt,          \* generate_srt on its own: the segments given, the lines of
                  \* the file written, and what reading the file back yields
    whisper,      \* the transcription models: the whisper_model attribute of
                  \* each VideoDubber, the callers inside _get_whisper_model,
                  \* and the WhisperModel constructions made
    mux_call,     \* mux_video on its own: its arguments and the command it ran
    api,          \* dub_video_endpoint: the request, the jobs started for it
                  \* and the response
    stream_state  \* the live-stream handler's StreamState and what its last
                  \* call did

alignVars == <<a_in, a_env, a_out>>
mergeVars == <<segments, idx, fs, inputs, filter_parts, mix, dubbed_audio>>
translatorVars == <<tr_calls, tr_failed, tr_source>>
jobVars   == <<job, audio_ok, shared, li, muxed, lang_result, results, stageLog,
               translatorVars>>
dirVars   == <<clock, job_dirs>>
sideVars  == <<srt, whisper, mux_call, api, stream_state>>

nonPc == <<mode, alignVars, mergeVars, jobVars, written, dirVars, sideVars>>

vars == <<pc, mode, alignVars, mergeVars, jobVars, written, dirVars, sideVars>>

-----------------------------------------------------------------------------
(* Bounds of the model *)

\* clip and target durations range over 0 .. MaxDurTicks ticks of 0.2 s
MaxDurTicks == 30

Durations == {2000 * k : k \in 0..MaxDurTicks}

-----------------------------------------------------------------------------
(* The media toolkit, as adjust_audio_speed uses it.  A clip on disk is    *)
(* [ok, dur]: readable by ffprobe or not, and its true duration.  env      *)
(* records which toolkit invocations succeed.                              *)

NoFile == [ok |-> FALSE, dur |-> 0]

Envs == [tempo : BOOLEAN, probe2 : BOOLEAN, trunc : BOOLEAN]

\* get_audio_duration: float(ffprobe's stdout), 0.0 when that cannot be parsed
get_audio_duration(clip) == IF clip.ok THEN clip.dur ELSE 0

\* mutant of ProbeUnusable: only a negative duration is passed through
ProbeUnusable_strict(current_duration) == current_duration < 0

\* current_duration <= 0: nothing to align
ProbeUnusable(current_duration) == current_duration <= 0

\* mutant of ClampSpeed: the wider band [0.5, 2.0] of an earlier revision
ClampSpeed_wide(current_duration, target_duration) ==
    IF current_duration > 2 * target_duration THEN <<2, 1>>
    ELSE IF current_duration * 2 < target_duration THEN <<1, 2>>
    ELSE <<current_duration, target_duration>>

\* speed_factor = max(0.85, min(1.25, current_duration / target_duration)),
\* for target_duration > 0, as a fraction
ClampSpeed(current_duration, target_duration) ==
    IF current_duration * 100 > 125 * target_duration THEN <<125, 100>>
    ELSE IF current_duration * 100 < 85 * target_duration THEN <<85, 100>>
    ELSE <<current_duration, target_duration>>

\* mutant of NearUnity: a difference of exactly 0.05 is skipped too
NearUnity_incl(f) ==
    LET diff == IF f[1] >= f[2] THEN f[1] - f[2] ELSE f[2] - f[1]
    IN  diff * 100 <= 5 * f[2]

\* abs(speed_factor - 1.0) < 0.05
NearUnity(f) ==
    LET diff == IF f[1] >= f[2] THEN f[1] - f[2] ELSE f[2] - f[1]
    IN  diff * 100 < 5 * f[2]

\* ffmpeg -filter:a atempo=f: the output plays for dur / f (an unclamped
\* f is dur / target_duration, and the output plays for target_duration)
Atempo(dur, f) ==
    IF f[1] = dur THEN f[2] ELSE (dur * f[2]) \div f[1]

\* mutant of TruncateTo: the -t argument is lost and nothing is cut
TruncateTo_nocut(dur, target_duration) == dur

\* ffmpeg -t target_duration: the output is cut to at most target_duration
TruncateTo(dur, target_duration) ==
    IF dur > target_duration THEN target_duration ELSE dur

\* mutant of StillTooLong: no 5% tolerance
StillTooLong_notol(adjusted_duration, target_duration) ==
    adjusted_duration > target_duration

\* mutant of StillTooLong: the tolerance is 50%
StillTooLong_loose(adjusted_duration, target_duration) ==
    adjusted_duration * 100 > target_duration * 150

\* adjusted_duration > target_duration * 1.05
StillTooLong(adjusted_duration, target_duration) ==
    adjusted_duration * 100 > target_duration * 105

\* What one call adjust_audio_speed(audio_path, target_duration) does.
\*   raised    the call ended in an exception (ZeroDivisionError)
\*   path      which path it returned: the input's, the _adjusted or the
\*             _truncated one
\*   clip      the file at the returned path
\*   speed     the clamped speed factor, <<>> when none was computed
\*   tempo     the factors of the atempo invocations made
\*   cuts      the -t arguments of the truncations made
\*   probed    what get_audio_duration reported for the input
\*   adjusted_duration   the re-measured duration, -1 when not measured
AdjustAudioSpeed(clip, target_duration, env) ==
    LET current_duration == get_audio_duration(clip)
        quiet == [raised |-> FALSE, path |-> "in", clip |-> clip,
                  speed |-> <<>>, tempo |-> <<>>, cuts |-> <<>>,
                  probed |-> current_duration, adjusted_duration |-> -1]
    IN
    IF ProbeUnusable(current_duration) THEN quiet
    ELSE IF target_duration = 0 THEN [quiet EXCEPT !.raised = TRUE, !.path = "none"]
    ELSE
    LET speed_factor == ClampSpeed(current_duration, target_duration)
    IN
    IF NearUnity(speed_factor) THEN [quiet EXCEPT !.speed = speed_factor]
    ELSE
    LET output == IF env.tempo
                  THEN [ok |-> TRUE, dur |-> Atempo(clip.dur, speed_factor)]
                  ELSE NoFile
        adjusted_duration ==
            get_audio_duration([output EXCEPT !.ok = output.ok /\ env.probe2])
        stretched == [quiet EXCEPT !.speed = speed_factor,
                                   !.tempo = <<speed_factor>>,
                                   !.adjusted_duration = adjusted_duration]
    IN
    IF StillTooLong(adjusted_duration, target_duration)
    THEN [stretched EXCEPT
            !.path = "truncated",
            !.cuts = <<target_duration>>,
            !.clip = IF env.trunc
                     THEN [ok |-> TRUE, dur |-> TruncateTo(output.dur, target_duration)]
                     ELSE NoFile]
    ELSE [stretched EXCEPT !.path = "adjusted", !.clip = output]

-----------------------------------------------------------------------------
(* adjust_audio_speed on its own: every clip and target duration of the    *)
(* bounded sets, every outcome of the toolkit.                             *)

NoCall == [raised |-> FALSE, path |-> "none", clip |-> NoFile,
           speed |-> <<>>, tempo |-> <<>>, cuts |-> <<>>,
           probed |-> -1, adjusted_duration |-> -1]

AllOk == [tempo |-> TRUE, probe2 |-> TRUE, trunc |-> TRUE]

\* the merge and job variables before any call has touched them
MergeIdle ==
    /\ segments = <<>> /\ idx = 0 /\ fs = <<>> /\ inputs = <<>>
    /\ filter_parts = <<>> /\ mix = <<>> /\ dubbed_audio = <<>>

JobIdle ==
    /\ job = <<>> /\ audio_ok = FALSE /\ shared = <<>> /\ li = 0
    /\ muxed = <<>> /\ lang_result = <<>> /\ results = <<>>
    /\ stageLog = <<>> /\ tr_calls = <<>> /\ tr_failed = {}
    /\ tr_source = <<>>

\* no file written yet, the clock at the second the caller starts in, no
\* job directory created
DirsIdle == written = {} /\ clock = 0 /\ job_dirs = <<>>

\* generate_srt, the transcription models, mux_video, the HTTP endpoint and
\* the live-stream handler before anything has called them
SideIdle ==
    /\ srt = <<>> /\ whisper = <<>> /\ mux_call = <<>> /\ api = <<>>
    /\ stream_state = <<>>

InitAlign ==
    /\ pc = "align_call"
    /\ mode = "align"
    /\ MergeIdle
    /\ JobIdle
    /\ DirsIdle
    /\ SideIdle
    /\ a_in \in [clip : [ok : BOOLEAN, dur : Durations], target : Durations]
    /\ a_env = AllOk
    /\ a_out = NoCall

AlignCall ==
    /\ pc = "align_call"
    /\ \E env \in Envs :
         /\ a_env' = env
         /\ a_out' = AdjustAudioSpeed(a_in.clip, a_in.target, env)
    /\ pc' = IF a_out'.raised THEN "align_raised" ELSE "align_done"
    /\ UNCHANGED <<mode, a_in, mergeVars, jobVars, written, dirVars, sideVars>>

NextAlign == AlignCall

SpecAlign == InitAlign /\ [][NextAlign]_vars

-----------------------------------------------------------------------------
(* Segments, paths and the files the pipeline writes.                      *)

\* at most MaxSegs segments come out of a transcription
MaxSegs == 2

\* at most MaxLangs target languages in a batch
MaxLangs == 2

\* Segment(start, end, text): translated_text and audio_path default to ""
Segment(start, end, text) ==
    [start |-> start, end |-> end, text |-> text,
     translated_text |-> "", audio_path |-> <<>>]

\* The (start, end) pairs a transcription may report, in time order: 0.0-4.0 s
\* and 5.0-9.0 s, a segment of no length at 4.5 s, and one starting at
\* 9.2507 s, whose start * 1000 is not a whole number of milliseconds.
Slots == << <<0, 40000>>, <<45000, 45000>>, <<50000, 90000>>, <<92507, 112507>> >>

\* the members of a set of slot numbers, ascending
Ordered(S) ==
    CHOOSE f \in [1..Cardinality(S) -> S] :
        \A a, b \in 1..Cardinality(S) : a < b => f[a] < f[b]

\* the segment lists a transcription may return: segments.append(Segment(
\* start=seg.start, end=seg.end, text=seg.text.strip())), in order
Transcribed(S) ==
    [k \in 1..Cardinality(S) |->
        Segment(Slots[Ordered(S)[k]][1], Slots[Ordered(S)[k]][2],
                <<"text", Ordered(S)[k]>>)]

SlotChoices == {S \in SUBSET (1..Len(Slots)) : Cardinality(S) <= MaxSegs}

\* durations of synthesized clips: 3.0 s, 4.0 s and 6.0 s
ClipDurs == {30000, 40000, 60000}

\* os.path.join(output_dir, name)
PathJoin(output_dir, name) == Append(output_dir, name)

\* f"tts_{index:04d}.mp3", index counted from 0
TtsName(index) ==
    <<"tts_0000.mp3", "tts_0001.mp3", "tts_0002.mp3", "tts_0003.mp3",
      "tts_0004.mp3">>[index + 1]

\* os.path.exists(path)
Exists(path) == path \in DOMAIN fs

\* not (not seg.audio_path or not os.path.exists(seg.audio_path))
Usable(seg) == seg.audio_path # <<>> /\ Exists(seg.audio_path)

-----------------------------------------------------------------------------
(* merge_dubbed_audio: the loop that aligns each usable clip and builds    *)
(* the adelay filters, then the mix command.                               *)

\* delay_ms = int(seg.start * 1000)
DelayMs(start) == start \div 10

\* f'[{i}:a]adelay={delay_ms}|{delay_ms}[a{i}]', for segment i when n clips
\* are already among the inputs: input stream i, delayed, labelled a{i}
FilterPart(i, n, delay_ms) ==
    [stream |-> i, delay |-> delay_ms, label |-> i]

\* mix_inputs = ''.join([f'[a{i}]' for i in range(len(filter_parts))])
MixInputs(parts) == [k \in 1..Len(parts) |-> k - 1]

\* mutant of NothingToMix: an empty mix is attempted
NothingToMix_never(parts) == FALSE

\* if not filter_parts: return ""
NothingToMix(parts) == parts = <<>>

\* ffmpeg accepts the command when every [s:a] names one of the -i inputs
\* (numbered from 0) and every label the mix reads was defined by a filter
MixWellFormed(cmd) ==
    /\ \A k \in 1..Len(cmd.filters) : cmd.filters[k].stream < Len(cmd.inputs)
    /\ \A k \in 1..Len(cmd.mix_inputs) :
          \E j \in 1..Len(cmd.filters) : cmd.filters[j].label = cmd.mix_inputs[k]

\* total_duration, the probed duration of the 10 s source audio
TotalDuration == IF audio_ok \/ mode = "merge" THEN 100000 ELSE 0

\* _create_job_dir(prefix): os.path.join(self.output_dir,
\* f"{prefix}_{timestamp}"), timestamp being time.strftime("%Y%m%d_%H%M%S"),
\* the wall clock to the second; os.makedirs(job_dir, exist_ok=True) accepts
\* a directory that is already there
create_job_dir(prefix, timestamp) == <<prefix, timestamp>>

\* job_dir of the running job
JobDir == create_job_dir(IF mode = "batch" THEN "batch_job" ELSE "job", clock)

\* mutant of LangDir: every language works in the job directory itself
LangDir_flat(job_dir, target_lang) == job_dir

\* lang_dir = os.path.join(job_dir, target_lang)
LangDir(job_dir, target_lang) == PathJoin(job_dir, target_lang)

\* output_dir of the running stage: job_dir, or lang_dir in a batch
OutputDir ==
    IF mode = "batch" THEN LangDir(JobDir, job.target_langs[li]) ELSE JobDir

\* audio_path.replace('.mp3', '_adjusted.mp3') and
\* output_path.replace('.mp3', '_truncated.mp3'): the clip's path with the
\* suffixes put before its extension, kept here as the path followed by them
AdjustedPath(audio_path) == Append(audio_path, "_adjusted")

TruncatedPath(output_path) == Append(output_path, "_truncated")

\* the files one call of adjust_audio_speed(audio_path, ...) writes, given
\* the path it returned
AdjustWrites(audio_path, returned) ==
    IF returned = "adjusted" THEN {AdjustedPath(audio_path)}
    ELSE IF returned = "truncated"
         THEN {AdjustedPath(audio_path), TruncatedPath(AdjustedPath(audio_path))}
         ELSE {}

\* who the files of the running stage belong to: the language in a batch,
\* else the job
Owner == IF mode = "batch" /\ li >= 1 /\ li <= Len(job.target_langs)
         THEN job.target_langs[li] ELSE "job"

\* written once the running stage has written to the paths given
Wrote(paths) == written \cup {<<Owner, path>> : path \in paths}

\* where an exception leaves the running method
Raise == pc' = "raised"

\* mutant of Notified: the subscriber is called without looking at it first,
\* and calling None raises
Notified_unguarded(progress_callback) ==
    IF progress_callback THEN "called" ELSE "TypeError"

\* if progress_callback: progress_callback(message), with a subscriber that
\* takes the message and returns
Notified(progress_callback) ==
    IF progress_callback THEN "called" ELSE "skipped"

\* the notification the running method makes, when it makes one, ends in an
\* exception
NotifyRaises(progress_callback, notifies) ==
    notifies /\ Notified(progress_callback) = "TypeError"

\* stageLog once the stages named have started: a stage is entered when the
\* first statement of its code runs, and logged once per entry
RECURSIVE StartedFrom(_, _)
StartedFrom(log, stages) ==
    IF stages = <<>> THEN log
    ELSE StartedFrom(IF log # <<>> /\ log[Len(log)] = Head(stages) THEN log
                     ELSE Append(log, Head(stages)),
                     Tail(stages))

Started(stages) == StartedFrom(stageLog, stages)

\* one iteration of the loop over enumerate(segments).  The toolkit
\* invocations adjust_audio_speed makes succeed here: what it does when they
\* fail is covered where it is called on its own, and a clip they leave
\* missing shows as a mix command that fails.
MergeAlign ==
    /\ pc = "merge_loop"
    /\ idx < Len(segments)
    /\ LET seg == segments[idx + 1]
       IN  IF ~Usable(seg)
           THEN /\ idx' = idx + 1
                /\ UNCHANGED <<pc, inputs, filter_parts, written>>
           ELSE LET adjusted == AdjustAudioSpeed(fs[seg.audio_path],
                                                 seg.end - seg.start, AllOk)
                IN  IF adjusted.raised
                    THEN Raise /\ UNCHANGED <<idx, inputs, filter_parts, written>>
                    ELSE /\ inputs' = Append(inputs,
                                [of |-> idx, path |-> adjusted.path,
                                 clip |-> adjusted.clip])
                         /\ filter_parts' = Append(filter_parts,
                                FilterPart(idx, Len(inputs), DelayMs(seg.start)))
                         /\ written' = Wrote(AdjustWrites(seg.audio_path,
                                                          adjusted.path))
                         /\ idx' = idx + 1
                         /\ UNCHANGED pc
    /\ stageLog' = IF mode = "merge" THEN stageLog ELSE Started(<<"AlignAll">>)
    /\ UNCHANGED <<mode, alignVars, segments, fs, mix, dubbed_audio,
                   job, audio_ok, shared, li, muxed, lang_result, results,
                   translatorVars, dirVars,
                   sideVars>>

\* after the loop: return "" or run the mix command and return output_path
MergeMix ==
    /\ pc = "merge_loop"
    /\ idx = Len(segments)
    /\ IF NothingToMix(filter_parts)
       THEN /\ dubbed_audio' = <<>>
            /\ UNCHANGED <<mix, written>>
       ELSE \E toolOk \in BOOLEAN :
              LET cmd == [inputs |-> inputs, filters |-> filter_parts,
                          mix_inputs |-> MixInputs(filter_parts),
                          t |-> TotalDuration]
              IN  /\ mix' = Append(mix,
                         [cmd EXCEPT !.t = TotalDuration] @@
                         [ok |-> toolOk /\ MixWellFormed(cmd)])
                  /\ dubbed_audio' = PathJoin(OutputDir, "dubbed_audio.wav")
                  /\ written' = Wrote({PathJoin(OutputDir, "dubbed_audio.wav")})
                  /\ stageLog' = IF mode = "merge" THEN stageLog
                                 ELSE Append(stageLog, "Mix")
    /\ pc' = IF mode = "merge" THEN "merge_done" ELSE "mux"
    /\ stageLog' = IF mode = "merge" THEN stageLog
                   ELSE Started(<<"AlignAll", "Mix">>)
    /\ UNCHANGED <<mode, alignVars, segments, idx, fs, inputs, filter_parts,
                   job, audio_ok, shared, li, muxed, lang_result, results,
                   translatorVars, dirVars,
                   sideVars>>

\* the ways a segment's clip may be when merge_dubbed_audio is called: no
\* audio_path, a path with no file behind it, or a clip on disk
ClipStates ==
    [kind : {"none", "missing"}, dur : {0}] \cup [kind : {"disk"}, dur : ClipDurs]

\* merge_dubbed_audio called on its own, with any segment list
InitMerge ==
    /\ pc = "merge_loop"
    /\ mode = "merge"
    /\ a_in = <<>> /\ a_env = AllOk /\ a_out = NoCall
    /\ JobIdle
    /\ DirsIdle
    /\ SideIdle
    /\ idx = 0 /\ inputs = <<>> /\ filter_parts = <<>> /\ mix = <<>>
    /\ dubbed_audio = <<>>
    /\ \E S \in SlotChoices :
       \E c \in [1..Cardinality(S) -> ClipStates] :
          /\ segments = [k \in 1..Cardinality(S) |->
                [Transcribed(S)[k] EXCEPT
                    !.translated_text = "translated",
                    !.audio_path = IF c[k].kind = "none" THEN <<>>
                                   ELSE PathJoin(<<"job", 0>>, TtsName(k - 1))]]
          /\ fs = [q \in {PathJoin(<<"job", 0>>, TtsName(k - 1)) :
                            k \in {j \in 1..Cardinality(S) : c[j].kind = "disk"}}
                     |-> [ok |-> TRUE,
                          dur |-> c[CHOOSE k \in 1..Cardinality(S) :
                                       q = PathJoin(<<"job", 0>>, TtsName(k - 1))].dur]]

NextMerge == MergeAlign \/ MergeMix

SpecMerge == InitMerge /\ [][NextMerge]_vars

-----------------------------------------------------------------------------
(* process_video and process_video_batch.                                  *)

LangTags == {"ja", "en"}

\* source_lang: "auto", or the tag of the language spoken
SourceLangs == {"auto", "en"}

\* target_langs: the non-empty lists of at most MaxLangs language tags
LangLists == UNION {[1..n -> LangTags] : n \in 1..MaxLangs}

\* what translator.translate may return: a translation, the error text its
\* except clause builds, or nothing
TranslateOutcomes == {"translated", "error", ""}

\* how a call of translator.translate may end: the model answered, the
\* model answered with nothing, or an exception was caught
TranslatorCalls == {"answer", "empty", "except"}

\* translator.translate: return response['message']['content'], or in the
\* except clause return the error text built from the exception
translate(call) ==
    IF call = "except" THEN "error"
    ELSE IF call = "empty" THEN "" ELSE "translated"

\* the result dictionary d with d[key] = value
Put(d, key, value) == (key :> value) @@ d

\* a caller invokes process_video (one target language) or
\* process_video_batch on a URL or a local file
InitJob ==
    /\ pc = "start"
    /\ mode \in {"single", "batch"}
    /\ a_in = <<>> /\ a_env = AllOk /\ a_out = NoCall
    /\ MergeIdle
    /\ DirsIdle
    /\ SideIdle
    /\ job \in [source : {"url", "file"}, source_lang : SourceLangs,
                target_langs : LangLists, progress_callback : BOOLEAN]
    /\ mode = "single" => Len(job.target_langs) = 1
    /\ audio_ok = FALSE /\ shared = <<>> /\ li = 0
    /\ muxed = <<>> /\ lang_result = <<>> /\ results = <<>>
    /\ stageLog = <<>> /\ tr_calls = <<>> /\ tr_failed = {}
    /\ tr_source = <<>>

\* video_path: the downloaded video.mp4 of the job directory, or the
\* caller's own file
VideoPath ==
    IF job.source = "url" THEN PathJoin(JobDir, "video.mp4")
    ELSE <<"video_source">>

\* job_dir = self._create_job_dir(...); results = {}
Begin ==
    /\ pc = "start"
    /\ pc' = "acquire"
    /\ UNCHANGED <<mode, alignVars, mergeVars, jobVars, written, dirVars, sideVars>>

\* download_youtube, or the extraction of a local file's audio: the download
\* may raise; the extraction's exit status is not looked at
Acquire(progress_callback) ==
    /\ pc = "acquire"
    /\ IF NotifyRaises(progress_callback, job.source = "url")
       THEN Raise /\ UNCHANGED nonPc
       ELSE
           /\ stageLog' = Started(<<"Acquire">>)
           /\ \/ /\ job.source = "url"
                 /\ Raise
                 /\ UNCHANGED <<audio_ok, results, written>>
              \/ /\ audio_ok' \in BOOLEAN
                 /\ pc' = "transcribe"
                 /\ written' = Wrote((IF job.source = "url" THEN {VideoPath} ELSE {})
                                     \cup {PathJoin(JobDir, "audio.wav")})
                 /\ results' = IF mode = "single"
                               THEN Put(results, "original_video", VideoPath)
                               ELSE results
           /\ UNCHANGED <<mode, alignVars, mergeVars, job, shared, li, muxed,
                          lang_result, translatorVars, dirVars,
                          sideVars>>

\* generate_subtitles and generate_srt(use_translated=False); transcribing a
\* missing audio file raises
Transcribe(progress_callback) ==
    /\ pc = "transcribe"
    /\ IF NotifyRaises(progress_callback, TRUE)
       THEN Raise /\ UNCHANGED nonPc
       ELSE
           /\ stageLog' = Started(<<"Transcribe">>)
           /\ IF ~audio_ok
              THEN Raise /\ UNCHANGED <<segments, shared, li, results, written>>
              ELSE /\ written' = Wrote({PathJoin(JobDir, "original.srt")})
                   /\ \E S \in SlotChoices :
                        IF mode = "single"
                        THEN /\ segments' = Transcribed(S)
                             /\ results' = Put(results, "original_srt",
                                               PathJoin(JobDir, "original.srt"))
                             /\ pc' = "translate"
                             /\ li' = 1
                             /\ UNCHANGED shared
                        ELSE /\ shared' = Transcribed(S)
                             /\ results' = [original_video |-> VideoPath,
                                            original_srt |-> PathJoin(JobDir, "original.srt"),
                                            languages |-> <<>>]
                             /\ li' = 1
                             /\ pc' = "lang_loop"
                             /\ UNCHANGED segments
           /\ idx' = 0
           /\ UNCHANGED <<mode, alignVars, fs, inputs, filter_parts, mix,
                          dubbed_audio, job, audio_ok, muxed, lang_result, translatorVars,
                          dirVars,
                          sideVars>>

\* mutant of LangStages: every language runs the whole of process_video
LangStages_whole == "acquire"

\* the first stage inside the loop over target_langs: translation; the
\* acquisition and the transcription stand before the loop
LangStages == "translate"

\* mutant of DeepCopied: lang_segments is the list segments itself
DeepCopied_alias(original, copied) == copied

\* lang_segments = copy.deepcopy(segments): the copy's Segment objects are
\* new ones, so once the stages have made the copy hold `copied` the list
\* segments still holds `original`
DeepCopied(original, copied) == original

\* for i, target_lang in enumerate(target_langs): lang_dir, lang_result = {},
\* lang_segments = copy.deepcopy(segments); after the loop, return
LangLoop(progress_callback) ==
    /\ pc = "lang_loop"
    /\ IF NotifyRaises(progress_callback, TRUE)
       THEN Raise /\ UNCHANGED nonPc
       ELSE
           /\ IF li <= Len(job.target_langs)
              THEN /\ segments' = shared
                   /\ lang_result' = <<>>
                   /\ tr_calls' = <<>>
                   /\ tr_source' = <<>>
                   /\ pc' = LangStages
                   /\ UNCHANGED stageLog
              ELSE /\ pc' = "done"
                   /\ stageLog' = Started(<<"Done">>)
                   /\ UNCHANGED <<segments, lang_result, tr_calls, tr_source>>
           /\ idx' = 0
           /\ UNCHANGED <<mode, alignVars, fs, inputs, filter_parts, mix,
                          dubbed_audio, job, audio_ok, shared, li, muxed, results,
                          tr_failed, written, dirVars,
                          sideVars>>

\* translate_segments: one iteration of its loop
TranslateStep(progress_callback) ==
    /\ pc = "translate"
    /\ idx < Len(segments)
    /\ IF NotifyRaises(progress_callback, TRUE)
       THEN Raise /\ UNCHANGED nonPc
       ELSE
           /\ \E call \in TranslatorCalls :
                 LET translated == translate(call)
                 IN  /\ translated \in TranslateOutcomes
                     /\ segments' = [segments EXCEPT ![idx + 1].translated_text = translated]
                     /\ tr_calls' = Append(tr_calls, call)
                     /\ tr_source' = Append(tr_source, job.source_lang)
                     /\ tr_failed' = IF call = "except" THEN tr_failed \cup {li}
                                     ELSE tr_failed
           /\ shared' = IF mode = "batch" THEN DeepCopied(shared, segments') ELSE shared
           /\ idx' = idx + 1
           /\ stageLog' = Started(<<"TranslateAll">>)
           /\ UNCHANGED <<pc, mode, alignVars, fs, inputs, filter_parts, mix,
                          dubbed_audio, job, audio_ok, li, muxed, lang_result,
                          results, written, dirVars,
                          sideVars>>

\* translate_segments returns; generate_srt(use_translated=True)
TranslateDone ==
    /\ pc = "translate"
    /\ idx = Len(segments)
    /\ IF mode = "single"
       THEN /\ results' = Put(results, "translated_srt",
                              PathJoin(OutputDir, "translated.srt"))
            /\ UNCHANGED lang_result
       ELSE /\ lang_result' = Put(lang_result, "translated_srt",
                                  PathJoin(OutputDir, "translated.srt"))
            /\ UNCHANGED results
    /\ written' = Wrote({PathJoin(OutputDir, "translated.srt")})
    /\ pc' = "synthesize"
    /\ idx' = 0
    /\ stageLog' = Started(<<"TranslateAll">>)
    /\ UNCHANGED <<mode, alignVars, segments, fs, inputs, filter_parts, mix,
                   dubbed_audio, job, audio_ok, shared, li, muxed, translatorVars,
                   dirVars,
                   sideVars>>

\* The synthesis service is a function of the voice and the text: the clip
\* of segment index in the voice of target_lang plays for 3.0 s or 6.0 s (in
\* "ja", 3.0 s and 6.0 s for the first two segments).
SynthesizedDur(target_lang, index) ==
    IF (index % 2 = 0) <=> (target_lang = "ja") THEN 30000 ELSE 60000

\* mutant of AllSynthesized: the stage is left once the first call returned
AllSynthesized_first(i, total) == i >= 1 \/ total = 0

\* loop.run_until_complete(run_all()): every awaited
\* synthesize_segment_audio call has returned
AllSynthesized(i, total) == i = total

\* mutant of StoreAudioPath: the clip's path is kept in a new Segment built
\* from start, end and text
StoreAudioPath_fresh(segment, output_path) ==
    [Segment(segment.start, segment.end, segment.text)
        EXCEPT !.audio_path = output_path]

\* segment.audio_path = output_path
StoreAudioPath(segment, output_path) ==
    [segment EXCEPT !.audio_path = output_path]

\* synthesize_all_audio: one awaited synthesize_segment_audio call; the
\* synthesis service may raise, which nothing catches
SynthStep(progress_callback) ==
    /\ pc = "synthesize"
    /\ idx < Len(segments)
    /\ IF NotifyRaises(progress_callback, TRUE)
       THEN Raise /\ UNCHANGED nonPc
       ELSE
           /\ stageLog' = Started(<<"SynthesizeAll">>)
           /\ \/ /\ Raise
                 /\ UNCHANGED <<segments, idx, fs, written>>
              \/ LET output_path == PathJoin(OutputDir, TtsName(idx))
                     dur == SynthesizedDur(job.target_langs[li], idx)
                   IN  /\ fs' = Put(fs, output_path, [ok |-> TRUE, dur |-> dur])
                       /\ segments' = [segments EXCEPT
                                           ![idx + 1] = StoreAudioPath(@, output_path)]
                       /\ written' = Wrote({output_path})
                       /\ idx' = idx + 1
                       /\ UNCHANGED pc
           /\ shared' = IF mode = "batch" THEN DeepCopied(shared, segments') ELSE shared
           /\ UNCHANGED <<mode, alignVars, inputs, filter_parts, mix, dubbed_audio,
                          job, audio_ok, li, muxed, lang_result, results, translatorVars,
                          dirVars,
                          sideVars>>

\* synthesize_all_audio returns; merge_dubbed_audio starts with empty
\* filter_parts and inputs
SynthDone(progress_callback) ==
    /\ pc = "synthesize"
    /\ AllSynthesized(idx, Len(segments))
    /\ IF NotifyRaises(progress_callback, TRUE)
       THEN Raise /\ UNCHANGED nonPc
       ELSE
           /\ pc' = "merge_loop"
           /\ idx' = 0
           /\ inputs' = <<>>
           /\ filter_parts' = <<>>
           /\ mix' = <<>>
           /\ stageLog' = Started(<<"SynthesizeAll">>)
           /\ UNCHANGED <<mode, alignVars, segments, fs, dubbed_audio,
                          job, audio_ok, shared, li, muxed, lang_result, results,
                          translatorVars, written, dirVars,
                          sideVars>>

\* mutant of StoreLang: the dictionary is replaced, not added to
StoreLang_last(languages, target_lang, entry) ==
    (target_lang :> entry)

\* batch_results['languages'][target_lang] = lang_result
StoreLang(languages, target_lang, entry) ==
    Put(languages, target_lang, entry)

\* if dubbed_audio: mux_video(...), whose exit status is not looked at (it
\* cannot succeed when the mix left no dubbed_audio.wav); then process_video
\* returns results, process_video_batch stores lang_result and goes on to
\* the next language
Mux(progress_callback) ==
    /\ pc = "mux"
    /\ IF NotifyRaises(progress_callback, dubbed_audio # <<>> \/ mode = "single")
       THEN Raise /\ UNCHANGED nonPc
       ELSE
           /\ LET dubbed_video == PathJoin(OutputDir, "dubbed_video.mp4")
                  out == IF dubbed_audio # <<>>
                         THEN Put(IF mode = "single" THEN results ELSE lang_result,
                                  "dubbed_video", dubbed_video)
                         ELSE IF mode = "single" THEN results ELSE lang_result
              IN  /\ IF dubbed_audio # <<>>
                     THEN /\ \E toolOk \in BOOLEAN :
                               muxed' = Append(muxed, [audio |-> dubbed_audio,
                                                       out |-> dubbed_video,
                                                       ok |-> toolOk /\ mix[Len(mix)].ok])
                          /\ written' = Wrote({dubbed_video})
                     ELSE UNCHANGED <<muxed, written>>
                  /\ IF mode = "single"
                     THEN /\ results' = out
                          /\ pc' = "done"
                          /\ stageLog' = IF dubbed_audio # <<>>
                                         THEN Started(<<"Mux", "Done">>)
                                         ELSE Started(<<"Done">>)
                          /\ UNCHANGED <<li, lang_result>>
                     ELSE /\ lang_result' = out
                          /\ results' = [results EXCEPT !.languages =
                                            StoreLang(@, job.target_langs[li], out)]
                          /\ li' = li + 1
                          /\ pc' = "lang_loop"
                          /\ stageLog' = IF dubbed_audio # <<>>
                                         THEN Started(<<"Mux">>)
                                         ELSE stageLog
           /\ UNCHANGED <<mode, alignVars, mergeVars, job, audio_ok, shared,
                          translatorVars, dirVars,
                          sideVars>>

Init == InitMerge \/ InitJob

\* the caller's progress_callback: a subscriber, or None
ProgressCallback == mode \in {"single", "batch"} /\ job.progress_callback

\* one step of the code, were the progress_callback argument as given
Step(progress_callback) ==
    \/ MergeAlign \/ MergeMix
    \/ Begin \/ Acquire(progress_callback) \/ Transcribe(progress_callback)
    \/ LangLoop(progress_callback)
    \/ TranslateStep(progress_callback) \/ TranslateDone
    \/ SynthStep(progress_callback) \/ SynthDone(progress_callback)
    \/ Mux(progress_callback)

Next ==
    \/ MergeAlign \/ MergeMix
    \/ Begin \/ Acquire(ProgressCallback) \/ Transcribe(ProgressCallback)
    \/ LangLoop(ProgressCallback)
    \/ TranslateStep(ProgressCallback) \/ TranslateDone
    \/ SynthStep(ProgressCallback) \/ SynthDone(ProgressCallback)
    \/ Mux(ProgressCallback)

Spec == Init /\ [][Next]_vars

-----------------------------------------------------------------------------
(* Properties of adjust_audio_speed, checked under SpecAlign.              *)

AlignDone == pc = "align_done"

\* every toolkit invocation of the call succeeded
ToolkitOk == a_env.tempo /\ a_env.probe2 /\ a_env.trunc

\* the input clip's probed duration was positive and the budget is positive
AlignProper == a_in.clip.ok /\ a_in.clip.dur > 0 /\ a_in.target > 0

\* dur is within 5% of target: 0.95 * target <= dur <= 1.05 * target
Within5(dur, target) == 95 * target <= dur * 100 /\ dur * 100 <= 105 * target

C1_WitnessShort ==
    /\ AlignDone /\ AlignProper /\ ToolkitOk
    /\ a_out.path = "adjusted"
    /\ a_out.clip.dur * 100 < 95 * a_in.target

\* C2: every tempo transform adjust_audio_speed invokes uses a factor f with
\* 0.85 <= f <= 1.25, and f is d / t clamped to that band: d / t itself
\* inside the band, 0.85 below it, 1.25 above it.
C2_FactorInBand ==
    \A i \in 1..Len(a_out.tempo) :
        LET f == a_out.tempo[i]
            d == a_in.clip.dur
            t == a_in.target
        IN  /\ 85 * f[2] <= 100 * f[1]
            /\ 100 * f[1] <= 125 * f[2]
            /\ d > 0 /\ t > 0
            /\ (100 * d < 85 * t => f = <<85, 100>>)
            /\ (100 * d > 125 * t => f = <<125, 100>>)
            /\ (85 * t <= 100 * d /\ 100 * d <= 125 * t => f = <<d, t>>)

\* C2's case: a transform was invoked for a clip whose d / t is above 1.25
C2_Witness ==
    /\ AlignDone
    /\ a_out.tempo # <<>>
    /\ 100 * a_in.clip.dur > 125 * a_in.target

\* C3: after a tempo transform the truncated clip, cut to exactly
\* target_duration, is returned if and only if the re-measured duration
\* exceeds 1.05 * target_duration; otherwise the stretched clip is returned.
\* A 6.0 s clip in a 4.0 s budget is stretched at the clamped factor 1.25 and
\* cut to 4.0 s; a 3.0 s clip in a 4.0 s budget is stretched at a factor in
\* the band and not cut.
C3_TruncateIff ==
    /\ (AlignDone /\ a_out.tempo # <<>>) =>
         /\ (a_out.path = "truncated")
               <=> (a_out.adjusted_duration * 100 > 105 * a_in.target)
         /\ a_out.path = "truncated" =>
               /\ a_out.cuts = <<a_in.target>>
               /\ (a_env.trunc => a_out.clip = [ok |-> TRUE, dur |-> a_in.target])
         /\ a_out.path # "truncated" =>
               /\ a_out.path = "adjusted"
               /\ a_out.cuts = <<>>
               /\ (a_env.tempo /\ a_env.probe2) =>
                     a_out.clip = [ok |-> TRUE, dur |-> a_out.adjusted_duration]
    /\ (AlignDone /\ ToolkitOk /\ a_in.clip = [ok |-> TRUE, dur |-> 60000]
                  /\ a_in.target = 40000) =>
         /\ a_out.tempo = << <<125, 100>> >>
         /\ a_out.adjusted_duration = 48000
         /\ a_out.path = "truncated"
         /\ a_out.clip.dur = 40000
    /\ (AlignDone /\ ToolkitOk /\ a_in.clip = [ok |-> TRUE, dur |-> 30000]
                  /\ a_in.target = 40000) =>
         /\ a_out.tempo = << <<85, 100>> >>
         /\ a_out.path = "adjusted"
         /\ a_out.cuts = <<>>

\* C3's case: the 6.0 s clip in the 4.0 s budget, stretched and cut
C3_Witness ==
    /\ AlignDone /\ ToolkitOk
    /\ a_in.clip = [ok |-> TRUE, dur |-> 60000] /\ a_in.target = 40000
    /\ a_out.path = "truncated"

\* C4: a clamped factor that differs from 1.0 by less than 0.05 means no
\* tempo transform, no truncation and the input path returned unchanged; one
\* that differs by 0.05 or more means a tempo transform at that factor.
C4_NearUnitySkip ==
    (AlignDone /\ a_out.speed # <<>>) =>
        LET f == a_out.speed
            diff == IF f[1] >= f[2] THEN f[1] - f[2] ELSE f[2] - f[1]
        IN  IF 100 * diff < 5 * f[2]
            THEN /\ a_out.tempo = <<>> /\ a_out.cuts = <<>>
                 /\ a_out.path = "in" /\ a_out.clip = a_in.clip
            ELSE a_out.tempo = <<f>>

\* C4's case: a clip 5% shorter than its budget, on the edge of the skip
C4_Witness ==
    /\ AlignDone
    /\ a_out.speed # <<>>
    /\ 100 * a_in.clip.dur = 95 * a_in.target
    /\ a_out.tempo # <<>>

\* C4's other case: a clip a little off its budget is returned as it is
C4_WitnessSkip ==
    /\ AlignDone
    /\ a_out.speed # <<>>
    /\ a_in.clip.dur # a_in.target
    /\ a_out.path = "in"

\* C5: when probing the input fails or yields a value <= 0,
\* get_audio_duration reports 0.0 and adjust_audio_speed returns the input
\* unchanged: no speed factor computed, no transform invoked, nothing raised.
C5_ProbeFailPassThrough ==
    (pc # "align_call" /\ (~a_in.clip.ok \/ a_in.clip.dur <= 0)) =>
        /\ pc = "align_done"
        /\ a_out.probed = 0
        /\ a_out.path = "in" /\ a_out.clip = a_in.clip
        /\ a_out.speed = <<>> /\ a_out.tempo = <<>> /\ a_out.cuts = <<>>

\* C5's case: an unreadable clip and a zero budget, where a division would raise
C5_Witness ==
    /\ pc = "align_done"
    /\ ~a_in.clip.ok /\ a_in.clip.dur > 0 /\ a_in.target = 0
    /\ a_out.path = "in"

-----------------------------------------------------------------------------
(* Properties of merge_dubbed_audio, process_video and process_video_batch, *)
(* checked under Spec.                                                      *)

\* merge_dubbed_audio has returned
MergeReturned == pc \in {"merge_done", "mux"}

\* the number of usable segments among the first n
RECURSIVE UsableCount(_)
UsableCount(n) ==
    IF n = 0 THEN 0
    ELSE UsableCount(n - 1) + (IF Usable(segments[n]) THEN 1 ELSE 0)

\* C6: when some segments have no usable clip, merge_dubbed_audio skips
\* exactly those and still builds a well-formed mix: the k-th clip supplied
\* as input is the stream delayed by its own segment's start offset, and
\* every delayed stream the mixer reads was defined, so that a skipped
\* segment neither makes the mix fail nor shifts another segment's clip.
C6_SkippedSegmentsHarmless ==
    (MergeReturned /\ mix # <<>>) =>
        LET cmd == mix[1]
        IN  /\ Len(cmd.inputs) = UsableCount(Len(segments))
            /\ \A k \in 1..Len(cmd.inputs) :
                  /\ Usable(segments[cmd.inputs[k].of + 1])
                  /\ \E j \in 1..Len(cmd.filters) :
                        /\ cmd.filters[j].stream = k - 1
                        /\ cmd.filters[j].delay =
                              DelayMs(segments[cmd.inputs[k].of + 1].start)
            /\ \A k \in 1..Len(cmd.mix_inputs) :
                  \E j \in 1..Len(cmd.filters) :
                        cmd.filters[j].label = cmd.mix_inputs[k]
            /\ MixWellFormed(cmd)

\* start * 1000 rounded to the nearest integer (start in units of 0.1 ms)
NearestMs(start) == (start + 5) \div 10

\* C7: for every mixed segment the delay applied to its clip equals
\* start * 1000 rounded to the nearest integer number of milliseconds.
C7_DelayRounded ==
    (MergeReturned /\ mix # <<>>) =>
        \A k \in 1..Len(mix[1].inputs) :
            mix[1].filters[k].delay = NearestMs(segments[mix[1].inputs[k].of + 1].start)

\* the result of the language that has just been processed in a batch
LastLangResult == results.languages[job.target_langs[li - 1]]

\* C8: merge_dubbed_audio returns the empty result and runs no mix command
\* if and only if no segment has a usable clip; then process_video and
\* process_video_batch skip mux_video and the job's (the language's) result
\* has no dubbed_video entry.
C8_EmptyMixIffNoUsableClip ==
    /\ MergeReturned =>
          /\ (dubbed_audio = <<>>) <=> (UsableCount(Len(segments)) = 0)
          /\ (mix = <<>>) <=> (UsableCount(Len(segments)) = 0)
    /\ (mode = "single" /\ pc = "done") =>
          /\ (muxed = <<>>) <=> (dubbed_audio = <<>>)
          /\ ("dubbed_video" \in DOMAIN results) <=> (dubbed_audio # <<>>)
    /\ (mode = "batch" /\ pc = "lang_loop" /\ li > 1) =>
          /\ dubbed_audio = <<>> =>
                \A k \in 1..Len(muxed) :
                    muxed[k].out # PathJoin(PathJoin(JobDir, job.target_langs[li - 1]),
                                            "dubbed_video.mp4")
          /\ dubbed_audio # <<>> =>
                /\ muxed # <<>>
                /\ muxed[Len(muxed)].audio = dubbed_audio
          /\ ("dubbed_video" \in DOMAIN LastLangResult) <=> (dubbed_audio # <<>>)

\* C8's case: a transcription with no segments, so nothing to mix and no mux
C8_Witness ==
    /\ mode = "single" /\ pc = "done"
    /\ dubbed_audio = <<>> /\ mix = <<>> /\ muxed = <<>>
    /\ "dubbed_video" \notin DOMAIN results

\* C8's case where merge_dubbed_audio is given segments none of which is usable
C8_WitnessUnusable ==
    /\ mode = "merge" /\ pc = "merge_done"
    /\ Len(segments) = 2
    /\ dubbed_audio = <<>>

StageOrder ==
    <<"Acquire", "Transcribe", "TranslateAll", "SynthesizeAll", "AlignAll",
      "Mix", "Mux", "Done">>

Rank(stage) == CHOOSE r \in 1..Len(StageOrder) : StageOrder[r] = stage

\* C9: in every run of process_video the stages start in the order Acquire,
\* Transcribe, TranslateAll, SynthesizeAll, AlignAll, Mix, Mux, Done; a stage
\* starts only when the one before it has completed (Mix only once every
\* synthesis call and every alignment has returned) and none starts twice.
\* Mux is the one stage a run may pass over, when the mix is empty.
C9_StagesInOrder ==
    mode = "single" =>
        /\ \A k \in 1..Len(stageLog) : \E r \in 1..Len(StageOrder) :
                                           StageOrder[r] = stageLog[k]
        /\ stageLog # <<>> => stageLog[1] = "Acquire"
        /\ \A k \in 1..(Len(stageLog) - 1) :
              \/ Rank(stageLog[k + 1]) = Rank(stageLog[k]) + 1
              \/ /\ stageLog[k] = "Mix" /\ stageLog[k + 1] = "Done"
                 /\ dubbed_audio = <<>>
        /\ (\E k \in 1..Len(stageLog) : stageLog[k] = "Transcribe")
              => "original_video" \in DOMAIN results
        /\ (\E k \in 1..Len(stageLog) : stageLog[k] = "TranslateAll")
              => "original_srt" \in DOMAIN results
        /\ (\E k \in 1..Len(stageLog) : stageLog[k] = "SynthesizeAll")
              => "translated_srt" \in DOMAIN results
        /\ (\E k \in 1..Len(stageLog) : stageLog[k] \in {"AlignAll", "Mix"})
              => \A n \in 1..Len(segments) : segments[n].audio_path # <<>>
        /\ (\E k \in 1..Len(stageLog) : stageLog[k] = "Mix")
              => /\ idx = Len(segments)
                 /\ Len(inputs) = Len(segments)
                 /\ Len(filter_parts) = Len(segments)

\* C9's case: a run over two segments that went through every stage
C9_Witness ==
    /\ mode = "single" /\ pc = "done"
    /\ Len(segments) = 2
    /\ stageLog = StageOrder

\* C10: in process_video_batch an exception in a stage of one target
\* language does not abort the batch: the later languages are still
\* processed and the batch result is returned.  (While a language of the
\* batch is still to be processed, the batch does not end in an exception.)
C10_BatchSurvivesLanguageFailure ==
    (mode = "batch" /\ li >= 1 /\ li < Len(job.target_langs)) => pc # "raised"

\* the distinct tags of target_langs
LangSet == {job.target_langs[k] : k \in 1..Len(job.target_langs)}

\* target_langs names no language twice
DistinctLangs == Cardinality(LangSet) = Len(job.target_langs)

\* an exception left the running method while it was in the stage named
RaisedIn(stage) ==
    pc = "raised" /\ stageLog # <<>> /\ stageLog[Len(stageLog)] = stage

\* how often the stage named has started
Count(stage) == Cardinality({k \in 1..Len(stageLog) : stageLog[k] = stage})

\* the result entry of a language processed to its end has both paths
Populated(target_lang) ==
    /\ target_lang \in DOMAIN results.languages
    /\ DOMAIN results.languages[target_lang] = {"translated_srt", "dubbed_video"}
    /\ results.languages[target_lang].translated_srt =
          PathJoin(PathJoin(JobDir, target_lang), "translated.srt")
    /\ results.languages[target_lang].dubbed_video =
          PathJoin(PathJoin(JobDir, target_lang), "dubbed_video.mp4")

\* C11: a failure of the translation (translator.translate ending in its
\* except clause) in one language of a batch over N distinct languages never
\* leaves translate_segments as an exception, and the batch result
\* process_video_batch returns has N per-language entries, every language
\* whose translation did not fail having its translated subtitle path and
\* its dubbed video path.
C11_BatchSurvivesTranslationFailure ==
    (mode = "batch" /\ DistinctLangs) =>
        /\ ~RaisedIn("TranslateAll")
        /\ (pc = "done" /\ Cardinality(tr_failed) = 1) =>
              /\ DOMAIN results.languages = LangSet
              /\ Cardinality(DOMAIN results.languages) = Len(job.target_langs)
              /\ \A k \in 1..Len(job.target_langs) :
                    k \notin tr_failed => Populated(job.target_langs[k])

\* C11's case: a batch over two languages has returned, the translation
\* having failed in the first language only
C11_Witness ==
    /\ mode = "batch" /\ pc = "done"
    /\ Len(job.target_langs) = 2 /\ DistinctLangs
    /\ tr_failed = {1}
    /\ Len(shared) = 2
    /\ Populated(job.target_langs[2])

PerLangStages == {"TranslateAll", "SynthesizeAll", "AlignAll", "Mix", "Mux"}

\* C12: in process_video_batch Acquire and Transcribe start once each,
\* whatever the number of languages, and before every per-language stage;
\* from then on the result holds one original_video and one original_srt
\* path, the same while every language is processed, and original.srt is
\* written by the batch, not by a language.
C12_AcquireTranscribeOnce ==
    mode = "batch" =>
        /\ Count("Acquire") <= 1 /\ Count("Transcribe") <= 1
        /\ \A k \in 1..Len(stageLog) :
              stageLog[k] \in PerLangStages =>
                  /\ k > 2
                  /\ stageLog[1] = "Acquire" /\ stageLog[2] = "Transcribe"
        /\ "languages" \in DOMAIN results =>
              /\ Count("Acquire") = 1 /\ Count("Transcribe") = 1
              /\ results.original_video = VideoPath
              /\ results.original_srt = PathJoin(JobDir, "original.srt")
        /\ \A w \in written :
              w[2] \in {PathJoin(JobDir, "original.srt"),
                        PathJoin(JobDir, "audio.wav")} => w[1] = "job"

\* C12's case: a batch over two languages has returned, each language having
\* gone through its own stages
C12_Witness ==
    /\ mode = "batch" /\ pc = "done"
    /\ Len(job.target_langs) = 2
    /\ Count("TranslateAll") = 2 /\ Count("Mux") = 2
    /\ Count("Acquire") = 1 /\ Count("Transcribe") = 1

\* the per-language stages are running on lang_segments
OnCopy == mode = "batch" /\ pc \in {"translate", "synthesize", "merge_loop", "mux"}

\* C13: in process_video_batch the shared segments keep an empty
\* translated_text and an empty audio_path at every point, and the copy a
\* language works on starts from them: a field another language set on its
\* copy is never found set on this language's copy before this language's
\* own stage has set it.
C13_LanguagesWorkOnCopies ==
    mode = "batch" =>
        /\ \A k \in 1..Len(shared) :
              shared[k].translated_text = "" /\ shared[k].audio_path = <<>>
        /\ OnCopy =>
              /\ Len(segments) = Len(shared)
              /\ \A k \in 1..Len(segments) :
                    /\ segments[k].start = shared[k].start
                    /\ segments[k].end = shared[k].end
                    /\ segments[k].text = shared[k].text
        /\ pc = "translate" =>
              \A k \in 1..Len(segments) :
                    /\ k > idx => segments[k].translated_text = ""
                    /\ segments[k].audio_path = <<>>
        /\ pc = "synthesize" =>
              \A k \in 1..Len(segments) :
                    /\ k > idx => segments[k].audio_path = <<>>
                    /\ k <= idx => segments[k].audio_path =
                                      PathJoin(OutputDir, TtsName(k - 1))

\* C13's case: the second language starts on its copy after the first
\* language's stages translated and synthesized every segment of theirs
C13_Witness ==
    /\ mode = "batch" /\ pc = "translate" /\ li = 2 /\ idx = 0
    /\ Len(segments) = 2
    /\ job.target_langs[1] \in DOMAIN results.languages
    /\ Exists(PathJoin(PathJoin(JobDir, job.target_langs[1]), TtsName(1)))
    /\ segments[1].translated_text = "" /\ segments[1].audio_path = <<>>

\* C15: in a batch every file a language writes lies in the sub-directory
\* of the job directory named by its tag, so that no path written for one
\* tag is written for another tag or for the batch itself.
C15_LanguageArtifactsDisjoint ==
    mode = "batch" =>
        /\ \A w1, w2 \in written : w1[1] # w2[1] => w1[2] # w2[2]
        /\ \A w \in written :
              IF w[1] = "job" THEN Len(w[2]) = Len(JobDir) + 1
              ELSE /\ w[1] \in LangSet
                   /\ Len(w[2]) > Len(JobDir) + 1
                   /\ SubSeq(w[2], 1, Len(JobDir) + 1) = PathJoin(JobDir, w[1])

\* C15's case: two languages have each written their subtitle file, clips,
\* dubbed audio and dubbed video
C15_Witness ==
    /\ mode = "batch" /\ pc = "done"
    /\ Len(job.target_langs) = 2 /\ DistinctLangs
    /\ \A k \in 1..2 :
          LET lang_dir == PathJoin(JobDir, job.target_langs[k])
          IN  {<<job.target_langs[k], PathJoin(lang_dir, name)>> :
                  name \in {"translated.srt", TtsName(0), "dubbed_audio.wav",
                            "dubbed_video.mp4"}} \subseteq written

\* C16: a segment whose translation failed (the call of
\* translator.translate for it ended in the except clause) is left with an
\* empty translated_text and is not synthesized: it never gets a clip.
C16_FailedTranslationLeftEmpty ==
    (mode \in {"single", "batch"}) =>
        \A k \in 1..Len(tr_calls) :
            tr_calls[k] = "except" =>
                /\ segments[k].translated_text = ""
                /\ segments[k].audio_path = <<>>

\* C17: a failure of the synthesis service for one segment does not leave
\* synthesize_all_audio: no job ends in an exception raised in SynthesizeAll.
C17_SynthesisFailureContained == ~RaisedIn("SynthesizeAll")

\* the synthesis service was called for segment k (counted from 1) of the
\* list being worked on: the call returned and set audio_path, or it is the
\* call that raised
SynthCalled(k) ==
    \/ segments[k].audio_path # <<>>
    \/ RaisedIn("SynthesizeAll") /\ k = idx + 1

\* C18: the synthesis service is called for a segment if and only if its
\* translated_text is not empty, and a segment with an empty translated_text
\* keeps an empty audio_path.
C18_SynthesisOnlyForTranslated ==
    (mode \in {"single", "batch"}) =>
        \A k \in 1..Len(segments) :
            segments[k].translated_text = "" => ~SynthCalled(k)

\* the mix or the mux of the language (the job) that has just been processed
\* failed
ToolFailed ==
    \/ mix # <<>> /\ ~mix[Len(mix)].ok
    \/ muxed # <<>> /\ muxed[Len(muxed)].audio = dubbed_audio
                    /\ ~muxed[Len(muxed)].ok

\* C19: when the toolkit invocation of the mix or of the mux fails, the job
\* (the language) does not end with a dubbed_video path in its result.
C19_ToolFailureSurfaced ==
    /\ (mode = "single" /\ pc = "done" /\ ToolFailed) =>
          "dubbed_video" \notin DOMAIN results
    /\ (mode = "batch" /\ pc = "lang_loop" /\ li > 1 /\ ToolFailed) =>
          "dubbed_video" \notin DOMAIN LastLangResult

\* the download raised, or the extraction left no audio.wav
AcquisitionFailed ==
    \/ RaisedIn("Acquire")
    \/ pc \notin {"start", "acquire"} /\ ~audio_ok

\* C20: when the acquisition fails, in the download or in the extraction of
\* the audio track, Transcribe never starts.
C20_AcquisitionFailureStopsJob ==
    (mode \in {"single", "batch"} /\ AcquisitionFailed) =>
        Count("Transcribe") = 0

-----------------------------------------------------------------------------
(* Job directories: callers start jobs on one VideoDubber, one after the   *)
(* other or at once, while the wall clock runs.                            *)

\* at most MaxJobs jobs are started
MaxJobs == 2

\* the wall clock runs for MaxClock seconds
MaxClock == 2

Jobs == 1..MaxJobs

InitJobs ==
    /\ pc = "jobs"
    /\ mode = "jobs"
    /\ a_in = <<>> /\ a_env = AllOk /\ a_out = NoCall
    /\ MergeIdle
    /\ JobIdle
    /\ written = {}
    /\ clock = 0
    /\ job_dirs = [j \in Jobs |-> <<>>]
    /\ SideIdle

\* a second of wall-clock time passes
Tick ==
    /\ mode = "jobs"
    /\ clock < MaxClock
    /\ clock' = clock + 1
    /\ UNCHANGED <<pc, mode, alignVars, mergeVars, jobVars, written, job_dirs, sideVars>>

\* job j starts: process_video calls _create_job_dir(), process_video_batch
\* calls _create_job_dir(prefix="batch_job")
CreateJobDir(j) ==
    /\ mode = "jobs"
    /\ job_dirs[j] = <<>>
    /\ \E prefix \in {"job", "batch_job"} :
          job_dirs' = [job_dirs EXCEPT ![j] = create_job_dir(prefix, clock)]
    /\ UNCHANGED <<pc, mode, alignVars, mergeVars, jobVars, written, clock, sideVars>>

\* job j extracts the audio track to os.path.join(job_dir, "audio.wav")
ExtractAudio(j) ==
    /\ mode = "jobs"
    /\ job_dirs[j] # <<>>
    /\ <<j, PathJoin(job_dirs[j], "audio.wav")>> \notin written
    /\ written' = written \cup {<<j, PathJoin(job_dirs[j], "audio.wav")>>}
    /\ UNCHANGED <<pc, mode, alignVars, mergeVars, jobVars, dirVars, sideVars>>

NextJobs ==
    \/ Tick
    \/ \E j \in Jobs : CreateJobDir(j)
    \/ \E j \in Jobs : ExtractAudio(j)

SpecJobs == InitJobs /\ [][NextJobs]_vars

\* C14: any two jobs started on the same VideoDubber have different job
\* directories, and no file path is written by two jobs.
C14_JobDirsDistinct ==
    mode = "jobs" =>
        /\ \A j1, j2 \in Jobs :
              (j1 # j2 /\ job_dirs[j1] # <<>> /\ job_dirs[j2] # <<>>)
                  => job_dirs[j1] # job_dirs[j2]
        /\ \A w1, w2 \in written : w1[1] # w2[1] => w1[2] # w2[2]

-----------------------------------------------------------------------------
(* The overrun of an aligned clip, checked under SpecAlign, and the        *)
(* segment of no length in merge_dubbed_audio, checked under Spec.         *)

\* both probes of the call reported a duration: the input's was positive,
\* and when a tempo transform ran, its output was written and measured
ProbesOk ==
    /\ a_in.clip.ok /\ a_in.clip.dur > 0
    /\ a_out.tempo # <<>> => a_env.tempo /\ a_env.probe2

\* C28: whenever both duration probes succeed, the clip adjust_audio_speed
\* returns is never longer than 1.05 * target_duration, for every input
\* duration d > 0 and budget t > 0 (a failed truncation returns the path of
\* a file that was not written: there is no clip to overrun).
C28_OverrunAtMost5 ==
    (AlignDone /\ ProbesOk /\ a_in.target > 0) =>
        (a_out.clip.ok => a_out.clip.dur * 100 <= 105 * a_in.target)

\* a clip 1.3 times its budget is sped up by the clamped 1.25 and
\* returned 4% over the budget, untruncated
C28_Witness ==
    /\ AlignDone /\ ProbesOk /\ a_in.target > 0
    /\ a_out.path = "adjusted" /\ a_out.clip.ok
    /\ a_out.clip.dur > a_in.target
    /\ a_out.adjusted_duration = a_out.clip.dur

\* C29 as the claim states it: merge_dubbed_audio called on its own, with
\* every segment holding a usable clip, never ends in an exception, a segment
\* with end - start = 0 included.
C29_MergeNeverRaises ==
    (mode = "merge" /\ \A k \in 1..Len(segments) : Usable(segments[k])) =>
        pc # "raised"

-----------------------------------------------------------------------------
(* What the stages of a job may change in the segment list, checked under  *)
(* Spec.                                                                   *)

\* a stage of process_video or of one language of process_video_batch holds
\* the segment list
InStage == mode \in {"single", "batch"}
           /\ pc \in {"translate", "synthesize", "merge_loop", "mux"}

\* segment k of the list as it was, with the two fields the stages fill in
\* taken from the list as it is
Refilled(before, after, k) ==
    [before[k] EXCEPT !.translated_text = after[k].translated_text,
                      !.audio_path = after[k].audio_path]

\* what a step taken inside a stage leaves of the list: the length, the
\* order, and start, end and text of every segment; translation leaves
\* audio_path, synthesis leaves translated_text, the merge and the mux leave
\* everything
FrameKept ==
    InStage =>
        /\ Len(segments') = Len(segments)
        /\ \A k \in 1..Len(segments) :
              /\ segments'[k] = Refilled(segments, segments', k)
              /\ pc = "translate" => segments'[k].audio_path = segments[k].audio_path
              /\ pc = "synthesize" =>
                    segments'[k].translated_text = segments[k].translated_text
              /\ pc \in {"merge_loop", "mux"} => segments'[k] = segments[k]

\* a segment names a clip only once synthesis ran for its own index: the
\* clip is tts_{k-1} of the stage's directory, it was written, and the
\* synthesis loop has passed k
ClipsFromSynthesis ==
    InStage =>
        \A k \in 1..Len(segments) :
            segments[k].audio_path # <<>> =>
                /\ pc # "translate"
                /\ pc = "synthesize" => k <= idx
                /\ segments[k].audio_path = PathJoin(OutputDir, TtsName(k - 1))
                /\ Exists(segments[k].audio_path)

\* C26: across translate_segments, generate_srt, synthesize_all_audio and
\* merge_dubbed_audio the segment sequence keeps its length and order and
\* every segment its start, end and text; translate_segments changes only
\* translated_text and synthesis only audio_path, and a segment has a clip
\* only after synthesis ran for that index.
C26_SegmentFrame == []ClipsFromSynthesis /\ [][FrameKept]_vars

\* two segments, translated and synthesized, reach the mux
C26_Witness ==
    /\ InStage /\ pc = "mux" /\ Len(segments) = 2
    /\ \A k \in 1..2 : /\ segments[k].translated_text = "translated"
                        /\ segments[k].audio_path # <<>>
    /\ segments[1].start < segments[2].start

-----------------------------------------------------------------------------
(* The source language handed to the translator, checked under Spec.       *)

\* C23 as the claim states it: when the caller passes the source language
\* "auto", the tag handed to translator.translate for every segment is the
\* one transcription detected, never the literal "auto".
C23_AutoResolved ==
    (mode \in {"single", "batch"} /\ job.source_lang = "auto") =>
        \A k \in 1..Len(tr_source) : tr_source[k] # "auto"

-----------------------------------------------------------------------------
(* The progress subscriber, checked under Spec.                            *)

\* C22: process_video and process_video_batch without a progress subscriber
\* make the same collaborator calls on the same arguments and return the
\* same result as with one: every step the code takes is the step it takes
\* whichever way the progress_callback argument is, so the calls logged, the
\* files written, the segments and the results never depend on it.
C22_SubscriberIrrelevant == [][\A cb \in BOOLEAN : Step(cb)]_vars

\* a job without subscriber ran to its end and reports a dubbed video
C22_Witness ==
    /\ mode = "single" /\ ~job.progress_callback
    /\ pc = "done"
    /\ "dubbed_video" \in DOMAIN results
    /\ muxed # <<>> /\ muxed[1].ok

-----------------------------------------------------------------------------
(* generate_srt on its own, and the file it writes read back.  A text is   *)
(* the sequence of its lines ("" is the text of no line); a line of the    *)
(* file is what a reader can tell of it: an index, a time range, text, or  *)
(* a blank line.                                                           *)

\* the texts a segment may carry: nothing, one line, two lines, and two
\* lines with an empty line between them ("a\n\nb")
Texts == {<<>>, <<"a">>, <<"a", "b">>, <<"a", "", "b">>}

Blank == [kind |-> "blank", n |-> 0, a |-> <<0, 0, 0, 0>>,
          b |-> <<0, 0, 0, 0>>, s |-> ""]

\* f"{i}\n"
IndexLine(i) == [Blank EXCEPT !.kind = "index", !.n = i]

\* format_time: hours, minutes, secs and millis of a time in seconds, each
\* cut to a whole number (the time is in units of 0.1 ms here)
format_time(seconds) ==
    << seconds \div 36000000,
       (seconds % 36000000) \div 600000,
       (seconds % 600000) \div 10000,
       (seconds % 10000) \div 10 >>

\* f"{format_time(seg.start)} --> {format_time(seg.end)}\n"
TimeLine(start, end) ==
    [Blank EXCEPT !.kind = "time", !.a = format_time(start),
                  !.b = format_time(end)]

\* one line of f"{text}\n": an empty line of the text is a blank line of
\* the file
TextLine(l) == IF l = "" THEN Blank ELSE [Blank EXCEPT !.kind = "text", !.s = l]

\* f"{text}\n\n": the lines of the text, each ended, and a blank line
TextBlock(text) ==
    (IF text = <<>> THEN <<Blank>> ELSE [k \in 1..Len(text) |-> TextLine(text[k])])
        \o <<Blank>>

\* the lines generate_srt writes for the segments from number i on
RECURSIVE SrtLines(_, _, _)
SrtLines(segs, i, use_translated) ==
    IF segs = <<>> THEN <<>>
    ELSE LET seg == Head(segs)
             text == IF use_translated THEN seg.translated_text ELSE seg.text
         IN  <<IndexLine(i), TimeLine(seg.start, seg.end)>> \o TextBlock(text)
                 \o SrtLines(Tail(segs), i + 1, use_translated)

\* the file generate_srt(segments, output_dir, use_translated) writes
generate_srt(segs, use_translated) == SrtLines(segs, 1, use_translated)

\* HH:MM:SS,mmm read as a time, in units of 0.1 ms
ParseTime(t) == ((t[1] * 3600 + t[2] * 60 + t[3]) * 1000 + t[4]) * 10

\* how many lines stand before the first blank line
RECURSIVE BlockLen(_)
BlockLen(lines) ==
    IF lines = <<>> \/ Head(lines).kind = "blank" THEN 0
    ELSE 1 + BlockLen(Tail(lines))

\* Reading a subtitle file of the format: entries are separated by blank
\* lines; an entry is an index line, a time-range line and its text lines.
\* A block of lines that does not start that way is no entry and is passed
\* over.
RECURSIVE ParseSrt(_, _)
ParseSrt(lines, entries) ==
    IF lines = <<>> THEN entries
    ELSE IF Head(lines).kind = "blank" THEN ParseSrt(Tail(lines), entries)
    ELSE LET n == BlockLen(lines)
             rest == SubSeq(lines, n + 1, Len(lines))
         IN  IF n >= 2 /\ lines[1].kind = "index" /\ lines[2].kind = "time"
             THEN ParseSrt(rest, Append(entries,
                      [index |-> lines[1].n,
                       start |-> ParseTime(lines[2].a),
                       end |-> ParseTime(lines[2].b),
                       text |-> [k \in 1..(n - 2) |-> lines[k + 2].s]]))
             ELSE ParseSrt(rest, entries)

\* a segment list and the use_translated flag, before generate_srt is called
InitSrt ==
    /\ pc = "srt_call"
    /\ mode = "srt"
    /\ a_in = <<>> /\ a_env = AllOk /\ a_out = NoCall
    /\ MergeIdle
    /\ JobIdle
    /\ DirsIdle
    /\ whisper = <<>> /\ mux_call = <<>> /\ api = <<>> /\ stream_state = <<>>
    /\ \E S \in SlotChoices :
       \E t, tt \in [1..Cardinality(S) -> Texts] :
       \E use_translated \in BOOLEAN :
          srt = [segments |-> [k \in 1..Cardinality(S) |->
                                  [Segment(Slots[Ordered(S)[k]][1],
                                           Slots[Ordered(S)[k]][2], t[k])
                                     EXCEPT !.translated_text = tt[k]]],
                 use_translated |-> use_translated,
                 file |-> <<>>, parsed |-> <<>>]

\* generate_srt writes the file
GenerateSrt ==
    /\ pc = "srt_call"
    /\ srt' = [srt EXCEPT !.file = generate_srt(srt.segments, srt.use_translated)]
    /\ pc' = "srt_written"
    /\ UNCHANGED <<mode, alignVars, mergeVars, jobVars, written, dirVars,
                   whisper, mux_call, api, stream_state>>

\* the file is read back
ReadSrt ==
    /\ pc = "srt_written"
    /\ srt' = [srt EXCEPT !.parsed = ParseSrt(srt.file, <<>>)]
    /\ pc' = "srt_parsed"
    /\ UNCHANGED <<mode, alignVars, mergeVars, jobVars, written, dirVars,
                   whisper, mux_call, api, stream_state>>

NextSrt == GenerateSrt \/ ReadSrt

SpecSrt == InitSrt /\ [][NextSrt]_vars

\* the text generate_srt was to write for a segment
SrtText(seg) == IF srt.use_translated THEN seg.translated_text ELSE seg.text

\* two times less than a millisecond apart
WithinMs(x, y) == x - y < 10 /\ y - x < 10

\* C21 as the claim states it: for every segment list, the file generate_srt
\* wrote, read back, has as many entries as there were segments, in the
\* original order with entry k carrying index k, each with the original text
\* and with start and end within a millisecond of the original values.
C21_SrtRoundTrip ==
    pc = "srt_parsed" =>
        /\ Len(srt.parsed) = Len(srt.segments)
        /\ \A k \in 1..Len(srt.parsed) :
              /\ srt.parsed[k].index = k
              /\ srt.parsed[k].text = SrtText(srt.segments[k])
              /\ WithinMs(srt.parsed[k].start, srt.segments[k].start)
              /\ WithinMs(srt.parsed[k].end, srt.segments[k].end)

-----------------------------------------------------------------------------
(* The transcription models of one process.  The web application makes a   *)
(* VideoDubber of its own for every request and serves requests on several *)
(* threads; the HTTP endpoint uses the module's one video_dubber, one       *)
(* request at a time; speech_to_text loads a model by itself.              *)

\* the requests being served at one time
MaxCallers == 2

\* the WhisperModel constructions followed
MaxConstructed == 3

Callers == 1..MaxCallers

\* a request at rest, the module's video_dubber with whisper_model = None,
\* no model constructed
InitWhisper ==
    /\ pc = "serving"
    /\ mode = "whisper"
    /\ a_in = <<>> /\ a_env = AllOk /\ a_out = NoCall
    /\ MergeIdle
    /\ JobIdle
    /\ DirsIdle
    /\ srt = <<>> /\ mux_call = <<>> /\ api = <<>> /\ stream_state = <<>>
    /\ whisper = [shared |-> FALSE,
                  own |-> [c \in Callers |-> FALSE],
                  kind |-> [c \in Callers |-> "none"],
                  at |-> [c \in Callers |-> "idle"],
                  constructed |-> 0]

whisperFrame == <<pc, mode, alignVars, mergeVars, jobVars, written, dirVars,
                  srt, mux_call, api, stream_state>>

\* process_video_translation: video_dubber_instance = VideoDubber(), whose
\* whisper_model is None, then process_video on it
AppRequest(c) ==
    /\ whisper.at[c] = "idle"
    /\ whisper' = [whisper EXCEPT !.kind[c] = "app", !.own[c] = FALSE,
                                  !.at[c] = "get"]
    /\ UNCHANGED whisperFrame

\* dub_video_endpoint: process_video on the module's video_dubber; the
\* endpoint does not await, so one such request runs at a time
ApiRequest(c) ==
    /\ whisper.at[c] = "idle"
    /\ \A d \in Callers : whisper.at[d] # "idle" => whisper.kind[d] # "api"
    /\ whisper' = [whisper EXCEPT !.kind[c] = "api", !.at[c] = "get"]
    /\ UNCHANGED whisperFrame

\* a live-stream chunk or an audio translation calls
\* translator.speech_to_text
SttRequest(c) ==
    /\ whisper.at[c] = "idle"
    /\ whisper' = [whisper EXCEPT !.kind[c] = "stt", !.at[c] = "stt"]
    /\ UNCHANGED whisperFrame

\* self.whisper_model is not None, for the VideoDubber the caller uses
Loaded(c) == IF whisper.kind[c] = "app" THEN whisper.own[c] ELSE whisper.shared

\* _get_whisper_model: if self.whisper_model is None
GetWhisperModel(c) ==
    /\ whisper.at[c] = "get"
    /\ whisper' = [whisper EXCEPT
                     !.at[c] = IF Loaded(c) THEN "transcribe" ELSE "construct"]
    /\ UNCHANGED whisperFrame

\* self.whisper_model = WhisperModel("base", ...)
ConstructModel(c) ==
    /\ whisper.at[c] = "construct"
    /\ whisper.constructed < MaxConstructed
    /\ whisper' = [whisper EXCEPT
                     !.constructed = @ + 1,
                     !.own[c] = IF whisper.kind[c] = "app" THEN TRUE ELSE @,
                     !.shared = IF whisper.kind[c] = "app" THEN @ ELSE TRUE,
                     !.at[c] = "transcribe"]
    /\ UNCHANGED whisperFrame

\* model.transcribe(...) and the rest of the job
TranscribeWith(c) ==
    /\ whisper.at[c] = "transcribe"
    /\ whisper' = [whisper EXCEPT !.at[c] = "idle"]
    /\ UNCHANGED whisperFrame

\* speech_to_text: model = WhisperModel("base", ...) on every call
SpeechToText(c) ==
    /\ whisper.at[c] = "stt"
    /\ whisper.constructed < MaxConstructed
    /\ whisper' = [whisper EXCEPT !.constructed = @ + 1, !.at[c] = "idle"]
    /\ UNCHANGED whisperFrame

NextWhisper ==
    \E c \in Callers :
        \/ AppRequest(c) \/ ApiRequest(c) \/ SttRequest(c)
        \/ GetWhisperModel(c) \/ ConstructModel(c) \/ TranscribeWith(c)
        \/ SpeechToText(c)

SpecWhisper == InitWhisper /\ [][NextWhisper]_vars

\* C24 as the claim states it: across any sequence or interleaving of
\* dubbing jobs and transcription calls of one process, the WhisperModel
\* constructor runs at most once.
C24_ModelConstructedOnce == whisper.constructed <= 1

-----------------------------------------------------------------------------
(* mux_video on its own.                                                   *)

\* subtitle_path: None (the default), the empty string, or a path
SubtitlePaths == {"None", "", "translated.srt"}

\* the directories a job or a language writes to
MuxDirs == {<<"job", 0>>, <<"job", 1>>, <<"batch_job", 0, "ja">>}

NoCmd == [vf |-> "", cv |-> "", video |-> "", audio |-> "", out |-> <<>>]

\* the arguments of a call, and whether a file stands at subtitle_path
InitMux ==
    /\ pc = "mux_call"
    /\ mode = "mux"
    /\ a_in = <<>> /\ a_env = AllOk /\ a_out = NoCall
    /\ MergeIdle
    /\ JobIdle
    /\ DirsIdle
    /\ srt = <<>> /\ whisper = <<>> /\ api = <<>> /\ stream_state = <<>>
    /\ \E video_path \in {"video.mp4", "upload.mov"} :
       \E output_dir \in MuxDirs :
       \E subtitle_path \in SubtitlePaths :
       \E burn_subtitles, on_disk \in BOOLEAN :
          /\ on_disk => subtitle_path = "translated.srt"
          /\ mux_call = [video_path |-> video_path,
                         dubbed_audio_path |-> "dubbed_audio.wav",
                         output_dir |-> output_dir,
                         subtitle_path |-> subtitle_path,
                         burn_subtitles |-> burn_subtitles,
                         on_disk |-> on_disk,
                         cmd |-> NoCmd, ok |-> FALSE, returned |-> <<>>]

\* burn_subtitles and subtitle_path and os.path.exists(subtitle_path)
Burns(burn_subtitles, subtitle_path, on_disk) ==
    burn_subtitles /\ subtitle_path \notin {"None", ""} /\ on_disk

\* the ffmpeg command of the branch taken: the subtitles filter with
\* -c:v libx264, or -c:v copy
MuxCmd(call) ==
    LET output_path == PathJoin(call.output_dir, "dubbed_video.mp4")
    IN  IF Burns(call.burn_subtitles, call.subtitle_path, call.on_disk)
        THEN [vf |-> call.subtitle_path, cv |-> "libx264",
              video |-> call.video_path, audio |-> call.dubbed_audio_path,
              out |-> output_path]
        ELSE [vf |-> "", cv |-> "copy",
              video |-> call.video_path, audio |-> call.dubbed_audio_path,
              out |-> output_path]

\* mux_video: the command is run, its exit status is not looked at, and
\* output_path is returned
MuxVideo ==
    /\ pc = "mux_call"
    /\ \E toolOk \in BOOLEAN :
          mux_call' = [mux_call EXCEPT !.cmd = MuxCmd(mux_call),
                                      !.ok = toolOk,
                                      !.returned = MuxCmd(mux_call).out]
    /\ pc' = "mux_returned"
    /\ UNCHANGED <<mode, alignVars, mergeVars, jobVars, written, dirVars,
                   srt, whisper, api, stream_state>>

NextMux == MuxVideo

SpecMux == InitMux /\ [][NextMux]_vars

\* C25 as the claim states it: mux_video burns the subtitle file into the
\* video, re-encoding it, whenever burn-in is requested, and copies the
\* video stream exactly when burn-in is not requested.
C25_BurnIffRequested ==
    pc = "mux_returned" =>
        /\ mux_call.burn_subtitles =>
              /\ mux_call.cmd.cv = "libx264"
              /\ mux_call.cmd.vf = mux_call.subtitle_path
        /\ mux_call.cmd.cv = "copy" <=> ~mux_call.burn_subtitles

-----------------------------------------------------------------------------
(* dub_video_endpoint: one request, from the url check to the response.    *)

\* request.url: a web address, a local path, or nothing
Urls == {"https://youtu.be/v", "/home/u/video.mp4", ""}

\* request.url.startswith("http")
StartsWithHttp(url) == url = "https://youtu.be/v"

\* request.target_langs: any list of at most MaxLangs tags, the empty one
\* included
ApiLangLists == UNION {[1..n -> LangTags] : n \in 0..MaxLangs}

\* the exceptions that may be in flight inside the try block; both
\* fastapi.HTTPException and the errors of a job are Exceptions
NoException == [raised |-> FALSE, type |-> "", status_code |-> 0]
HTTPException(status_code) ==
    [raised |-> TRUE, type |-> "HTTPException", status_code |-> status_code]
JobError == [raised |-> TRUE, type |-> "Exception", status_code |-> 0]

InitApi ==
    /\ pc = "api_check"
    /\ mode = "api"
    /\ a_in = <<>> /\ a_env = AllOk /\ a_out = NoCall
    /\ MergeIdle
    /\ JobIdle
    /\ DirsIdle
    /\ srt = <<>> /\ whisper = <<>> /\ mux_call = <<>> /\ stream_state = <<>>
    /\ \E request \in [url : Urls, source_lang : SourceLangs,
                        target_langs : ApiLangLists, burn_subtitles : BOOLEAN] :
          api = [request |-> request, in_flight |-> NoException,
                 started |-> <<>>, history |-> 0, status |-> 0]

apiFrame == <<mode, alignVars, mergeVars, jobVars, written, dirVars,
              srt, whisper, mux_call, stream_state>>

\* try: if not request.url.startswith("http"): raise HTTPException(400, ...)
CheckUrl ==
    /\ pc = "api_check"
    /\ IF StartsWithHttp(api.request.url)
       THEN pc' = "api_dispatch" /\ UNCHANGED api
       ELSE /\ api' = [api EXCEPT !.in_flight = HTTPException(400)]
            /\ pc' = "api_except"
    /\ UNCHANGED apiFrame

\* video_dubber.process_video for one target language, process_video_batch
\* otherwise; the job returns its results or raises
Dispatch ==
    /\ pc = "api_dispatch"
    /\ LET method == IF Len(api.request.target_langs) = 1
                     THEN "process_video" ELSE "process_video_batch"
           call == [method |-> method, url |-> api.request.url,
                    target_langs |-> api.request.target_langs]
       IN  \/ /\ api' = [api EXCEPT !.started = Append(@, call)]
              /\ pc' = "api_history"
           \/ /\ api' = [api EXCEPT !.started = Append(@, call),
                                     !.in_flight = JobError]
              /\ pc' = "api_except"
    /\ UNCHANGED apiFrame

\* history_manager.add_history, once for process_video and once per
\* language for a batch (here: every language of the request); return results
AddHistory ==
    /\ pc = "api_history"
    /\ api' = [api EXCEPT
                 !.history = @ + Cardinality({api.request.target_langs[k] :
                                       k \in 1..Len(api.request.target_langs)}),
                 !.status = 200]
    /\ pc' = "api_responded"
    /\ UNCHANGED apiFrame

\* except Exception as e: raise HTTPException(status_code=500, detail=str(e))
\* catches whatever the try block raised
ExceptException ==
    /\ pc = "api_except"
    /\ api.in_flight.raised
    /\ api' = [api EXCEPT !.in_flight = HTTPException(500), !.status = 500]
    /\ pc' = "api_responded"
    /\ UNCHANGED apiFrame

NextApi == CheckUrl \/ Dispatch \/ AddHistory \/ ExceptException

SpecApi == InitApi /\ [][NextApi]_vars

\* C27 as the claim states it: a request whose url does not start with
\* "http" is answered with status 400, and no dubbing job is started for it.
C27_BadUrlRejected ==
    (pc = "api_responded" /\ ~StartsWithHttp(api.request.url)) =>
        /\ api.status = 400
        /\ api.started = <<>>

-----------------------------------------------------------------------------
(* The live-stream handler: process_stream_chunk and reset_stream_state on *)
(* the one StreamState of the application.  The buffer is the sequence of  *)
(* the chunks' lengths in samples.                                         *)

\* chunks followed in the buffer before a flush
MaxChunks == 4

\* segments recognized and added to the transcript
MaxParagraphs == 2

\* the microphone's sample rate
SampleRate == 16000

\* len(audio_data) of a chunk: nothing, 1 s, 3 s or 6 s of samples
ChunkSizes == {0, SampleRate, 3 * SampleRate, 6 * SampleRate}

\* the silence_threshold argument, in hundredths
Thresholds == {2, 5}

\* what translator.speech_to_text may come back with: text, its error text
\* (it starts with the cross mark), nothing, or an exception
SttOutcomes == {"text", "error", "", "raise"}

NoStreamCall == [call |-> "none", size |-> 0, flushed |-> FALSE, stt |-> ""]

\* StreamState(): the fields process_stream_chunk reads or writes
StreamState ==
    [audio_buffer |-> <<>>, sample_rate |-> 16000, silence_threshold |-> 2,
     min_audio_length |-> 3, max_audio_length |-> 15,
     silence_count |-> 0, silence_chunks_needed |-> 3,
     full_transcript |-> 0, full_translation |-> 0,
     last |-> NoStreamCall]

InitStream ==
    /\ pc = "streaming"
    /\ mode = "stream"
    /\ a_in = <<>> /\ a_env = AllOk /\ a_out = NoCall
    /\ MergeIdle
    /\ JobIdle
    /\ DirsIdle
    /\ srt = <<>> /\ whisper = <<>> /\ mux_call = <<>> /\ api = <<>>
    /\ stream_state = StreamState

streamFrame == <<pc, mode, alignVars, mergeVars, jobVars, written, dirVars,
                 srt, whisper, mux_call, api>>

\* total_samples = sum(len(chunk) for chunk in stream_state.audio_buffer)
RECURSIVE TotalSamples(_)
TotalSamples(audio_buffer) ==
    IF audio_buffer = <<>> THEN 0
    ELSE Head(audio_buffer) + TotalSamples(Tail(audio_buffer))

\* is_silence: an empty chunk is silent, any other is as its level says
IsSilence(size, quiet) == size = 0 \/ quiet

\* mutant of ShouldProcess: the buffer is cut only once it is longer than
\* max_audio_length
ShouldProcess_late(st, total_samples, sample_rate) ==
    \/ /\ st.silence_count >= st.silence_chunks_needed
       /\ total_samples >= st.min_audio_length * sample_rate
    \/ total_samples > st.max_audio_length * sample_rate

\* should_process = (continuous_silence and audio_length >= min_audio_length)
\*                  or (audio_length >= max_audio_length),
\* with audio_length = total_samples / sample_rate
ShouldProcess(st, total_samples, sample_rate) ==
    \/ /\ st.silence_count >= st.silence_chunks_needed
       /\ total_samples >= st.min_audio_length * sample_rate
    \/ total_samples >= st.max_audio_length * sample_rate

\* process_stream_chunk(None, ...): only the threshold is taken over
NoChunk ==
    /\ \E silence_threshold \in Thresholds :
          stream_state' = [stream_state EXCEPT
                             !.silence_threshold = silence_threshold,
                             !.last = [NoStreamCall EXCEPT !.call = "nochunk"]]
    /\ UNCHANGED streamFrame

\* process_stream_chunk((sample_rate, audio_data), ...): the chunk is added
\* and counted; when the buffer is due it is emptied, saved and given to
\* speech_to_text, whose text, if any, is translated and appended
StreamChunk ==
    /\ Len(stream_state.audio_buffer) < MaxChunks
    /\ \E silence_threshold \in Thresholds :
       \E size \in ChunkSizes :
       \E quiet \in BOOLEAN :
       \E stt \in SttOutcomes :
          LET sample_rate == SampleRate
              counted == [stream_state EXCEPT
                  !.silence_threshold = silence_threshold,
                  !.audio_buffer = Append(@, size),
                  !.sample_rate = sample_rate,
                  !.silence_count = IF IsSilence(size, quiet) THEN @ + 1 ELSE 0]
              total_samples == TotalSamples(counted.audio_buffer)
          IN  IF ~ShouldProcess(counted, total_samples, sample_rate)
              THEN /\ stt = ""
                   /\ stream_state' = [counted EXCEPT
                          !.last = [call |-> "chunk", size |-> size,
                                    flushed |-> FALSE, stt |-> ""]]
              ELSE /\ stt = "text" => stream_state.full_transcript < MaxParagraphs
                   /\ stream_state' = [counted EXCEPT
                          !.audio_buffer = <<>>,
                          !.silence_count = 0,
                          !.full_transcript = IF stt = "text" THEN @ + 1 ELSE @,
                          !.full_translation = IF stt = "text" THEN @ + 1 ELSE @,
                          !.last = [call |-> "chunk", size |-> size,
                                    flushed |-> TRUE, stt |-> stt]]
    /\ UNCHANGED streamFrame

\* reset_stream_state: stream_state = StreamState()
ResetStreamState ==
    /\ stream_state' = [StreamState EXCEPT
                          !.last = [NoStreamCall EXCEPT !.call = "reset"]]
    /\ UNCHANGED streamFrame

NextStream == NoChunk \/ StreamChunk \/ ResetStreamState

SpecStream == InitStream /\ [][NextStream]_vars

\* the buffer is empty and no silence is counted
Flushed == stream_state.audio_buffer = <<>> /\ stream_state.silence_count = 0

\* seconds * sample_rate samples or more are buffered
Buffered(seconds) ==
    TotalSamples(stream_state.audio_buffer) >= seconds * stream_state.sample_rate

\* C30: after every call of process_stream_chunk with a non-empty chunk,
\* either the buffer was flushed (audio_buffer empty, silence_count = 0) or
\* less than 15 s are buffered and it is not so that silence_count >= 3 with
\* 3 s or more buffered; a flush discards the buffered audio whatever speech
\* recognition did with it.
C30_BufferBounded ==
    (stream_state.last.call = "chunk" /\ stream_state.last.size > 0) =>
        /\ \/ Flushed
           \/ /\ ~Buffered(15)
              /\ ~(stream_state.silence_count >= 3 /\ Buffered(3))
        /\ stream_state.last.flushed => Flushed

\* a chunk made the buffer due, recognition raised, and the audio is gone
C30_Witness ==
    /\ stream_state.last.call = "chunk" /\ stream_state.last.size > 0
    /\ stream_state.last.flushed
    /\ stream_state.last.stt = "raise"
    /\ Flushed

\* C30's other case: the call left 12 s of sound in the buffer
C30_WitnessRecording ==
    /\ stream_state.last.call = "chunk" /\ stream_state.last.size > 0
    /\ ~stream_state.last.flushed
    /\ Buffered(12)
    /\ stream_state.silence_count = 0

====
